---- MODULE Spec2Model ----
(***************************************************************************)
(* Model of createStreamJsonParser                                         *)
(* (src/src/agents/cli-runner/stream-json-parser.ts).                      *)
(*                                                                         *)
(* A JavaScript string is a sequence of characters.  The characters of the *)
(* stream are the newline, the white space characters, and the lexemes of  *)
(* a JSON text: the braces, the brackets, a number, the literal null, a    *)
(* character that starts no JSON value, and one lexeme for each member     *)
(* list ("type":"result","result":"x" ...) that the lines of the model     *)
(* carry.  A decoded JSON value is a record tagged with its typeof.        *)
(***************************************************************************)
EXTENDS Integers, Sequences, FiniteSets, TLC

VARIABLES
  stream,              \* the reference stream the caller delivers (never changes)
  pos,                 \* how many characters of stream have been fed
  buffer,              \* let buffer                               (line 53)
  collectedTextParts,  \* const collectedTextParts                 (line 54)
  sessionId,           \* let sessionId                            (line 55)
  usage,               \* let usage                                (line 56)
  calls,               \* the observer calls made so far, in order
  lines,               \* the arguments of the processLine calls made so far
  lastOp,              \* the public operation that returned last
  again,               \* the operation before it was a flush() too
  splitLine,           \* some fragment ended inside a line
  nflush               \* how many flush() calls were made

vars == <<stream, pos, buffer, collectedTextParts, sessionId, usage, calls,
          lines, lastOp, again, splitLine, nflush>>

(***************************************************************************)
(* Bounds of the model.                                                    *)
(***************************************************************************)
MaxLines == 2
MaxFlush == 2
MaxKeys == 2

(***************************************************************************)
(* JavaScript values.                                                      *)
(***************************************************************************)
Undefined == [t |-> "undefined"]
Null == [t |-> "null"]
Arr == [t |-> "array"]
SyntaxError == [t |-> "SyntaxError"]
Str(s) == [t |-> "string", s |-> s]
Num(n) == [t |-> "number", n |-> n]
Bool(b) == [t |-> "boolean", b |-> b]
Obj(f) == [t |-> "object", f |-> f]
NoMembers == [k \in {} |-> Undefined]

(***************************************************************************)
(* Characters.  Ch(c) is an ordinary character, M(f) the lexeme that       *)
(* spells the member list f of a JSON object.                              *)
(***************************************************************************)
Ch(c) == [c |-> c]
M(f) == [members |-> f]
NL == Ch("\n")
SP == Ch(" ")
CR == Ch("\r")
LBrace == Ch("{")
RBrace == Ch("}")
LBracket == Ch("[")
RBracket == Ch("]")
Digit == Ch("1")
NullLit == Ch("null")
Junk == Ch("x")
WhiteSpace == {SP, CR, Ch("\t"), NL}
T(c) == Str(<<Ch(c)>>)

Get(o, key) == IF key \in DOMAIN o.f THEN o.f[key] ELSE Undefined
IsString(v) == v.t = "string"
Falsy(v) ==
  \/ v.t \in {"undefined", "null"}
  \/ v.t = "number" /\ v.n = 0
  \/ v.t = "string" /\ v.s = <<>>
  \/ v.t = "boolean" /\ ~v.b
Nullish(a, b) == IF a.t \in {"undefined", "null"} THEN b ELSE a

isRecord(value) == value.t = "object"

RECURSIVE TrimStart(_)
TrimStart(s) ==
  IF s # <<>> /\ Head(s) \in WhiteSpace THEN TrimStart(Tail(s)) ELSE s

RECURSIVE TrimEnd(_)
TrimEnd(s) ==
  IF s # <<>> /\ s[Len(s)] \in WhiteSpace
  THEN TrimEnd(SubSeq(s, 1, Len(s) - 1)) ELSE s

Trim(s) == TrimEnd(TrimStart(s))

RECURSIVE Join(_)
Join(parts) == IF parts = <<>> THEN <<>> ELSE Head(parts) \o Join(Tail(parts))

RECURSIVE Split(_)
Split(s) ==
  IF \A i \in 1..Len(s) : s[i] # NL THEN <<s>>
  ELSE LET i == CHOOSE j \in 1..Len(s) :
                  s[j] = NL /\ \A h \in 1..(j - 1) : s[h] # NL
       IN <<SubSeq(s, 1, i - 1)>> \o Split(SubSeq(s, i + 1, Len(s)))

(***************************************************************************)
(* JSON.parse of a trimmed line: white space between lexemes is skipped;   *)
(* braces around at most one member list are an object, brackets an array, *)
(* a digit a number, null the null value; anything else throws.            *)
(***************************************************************************)
JSONparse(s) ==
  LET inner == SelectSeq(SubSeq(s, 2, Len(s) - 1), LAMBDA c : c \notin WhiteSpace)
  IN IF Len(s) >= 2 /\ s[1] = LBrace /\ s[Len(s)] = RBrace
     THEN IF inner = <<>> THEN Obj(NoMembers)
          ELSE IF Len(inner) = 1 /\ DOMAIN inner[1] = {"members"}
               THEN Obj(inner[1].members)
               ELSE SyntaxError
     ELSE IF Len(s) >= 2 /\ s[1] = LBracket /\ s[Len(s)] = RBracket
     THEN IF inner = <<>> THEN Arr ELSE SyntaxError
     ELSE IF s = <<Digit>> THEN Num(1)
     ELSE IF s = <<NullLit>> THEN Null
     ELSE SyntaxError

(***************************************************************************)
(* toUsage (lines 31-44).                                                  *)
(***************************************************************************)
\* a pick that takes any number, zero and negative ones too
pick_AnyNumber(raw, key) ==
  LET v == Get(raw, key)
  IN IF v.t = "number" THEN v ELSE Undefined

pick(raw, key) ==
  LET v == Get(raw, key)
  IN IF v.t = "number" /\ v.n > 0 THEN v ELSE Undefined

toUsage(raw) ==
  LET input == Nullish(pick(raw, "input_tokens"), pick(raw, "inputTokens"))
      output == Nullish(pick(raw, "output_tokens"), pick(raw, "outputTokens"))
      cacheRead == Nullish(pick(raw, "cache_read_input_tokens"),
                     Nullish(pick(raw, "cached_input_tokens"), pick(raw, "cacheRead")))
      cacheWrite == Nullish(pick(raw, "cache_write_input_tokens"), pick(raw, "cacheWrite"))
      total == Nullish(pick(raw, "total_tokens"), pick(raw, "total"))
  IN IF Falsy(input) /\ Falsy(output) /\ Falsy(cacheRead) /\ Falsy(cacheWrite)
        /\ Falsy(total)
     THEN Undefined
     ELSE Obj([input |-> input, output |-> output, cacheRead |-> cacheRead,
               cacheWrite |-> cacheWrite, total |-> total])

(***************************************************************************)
(* The parser instance: p.buffer, p.collectedTextParts, p.sessionId,       *)
(* p.usage are the closure variables of lines 53-56; p.calls and p.lines   *)
(* record the observer calls and the processLine calls.  An observer call  *)
(* carries the index of the processLine call that made it.                 *)
(***************************************************************************)
NewParser ==
  [buffer |-> <<>>, collectedTextParts |-> <<>>, sessionId |-> Undefined,
   usage |-> Undefined, calls |-> <<>>, lines |-> <<>>]

Call(p, cb, arg) ==
  [p EXCEPT !.calls = Append(@, [cb |-> cb, arg |-> arg, line |-> Len(p.lines)])]

\* lines 77-84
DeltaCase(p, parsed) ==
  LET delta == Get(parsed, "delta")
  IN IF Get(delta, "type") = T("text_delta") /\ IsString(Get(delta, "text"))
     THEN Call([p EXCEPT !.collectedTextParts = Append(@, Get(delta, "text").s)],
               "onText", Get(delta, "text"))
     ELSE p

\* lines 87-93
ToolCase(p, parsed) ==
  LET block == Get(parsed, "content_block")
  IN IF Get(block, "type") = T("tool_use") /\ IsString(Get(block, "name"))
     THEN Call(p, "onToolUse", Get(block, "name"))
     ELSE p

\* lines 97-100 and 106-109: the guarded assignment of sessionId
SetSessionId(p, parsed) ==
  LET id == Get(parsed, "session_id")
  IN IF IsString(id) /\ Trim(id.s) # <<>>
     THEN Call([p EXCEPT !.sessionId = Str(Trim(id.s))], "onSessionId", Str(Trim(id.s)))
     ELSE p

\* lines 96-102
SystemCase(p, parsed) == SetSessionId(p, parsed)

\* the result branch without its !sessionId guard
ResultSessionId_Unguarded(p, parsed) == SetSessionId(p, parsed)

\* lines 106-109
ResultSessionId(p, parsed) ==
  IF Falsy(p.sessionId) THEN SetSessionId(p, parsed) ELSE p

\* a usage that is overwritten by whatever the conversion returns
ResultUsage_Overwrite(p, parsed) ==
  IF isRecord(Get(parsed, "usage"))
  THEN LET q == [p EXCEPT !.usage = toUsage(Get(parsed, "usage"))]
       IN IF ~Falsy(q.usage) THEN Call(q, "onUsage", q.usage) ELSE q
  ELSE p

\* a usage observer notified when the usage is taken and again when it is set
ResultUsage_NotifyTwice(p, parsed) ==
  IF isRecord(Get(parsed, "usage"))
  THEN LET next == toUsage(Get(parsed, "usage"))
           q == [p EXCEPT !.usage = Nullish(next, p.usage)]
           r == IF ~Falsy(next) THEN Call(q, "onUsage", next) ELSE q
       IN IF ~Falsy(r.usage) THEN Call(r, "onUsage", r.usage) ELSE r
  ELSE p

\* lines 110-115
ResultUsage(p, parsed) ==
  IF isRecord(Get(parsed, "usage"))
  THEN LET q == [p EXCEPT !.usage = Nullish(toUsage(Get(parsed, "usage")), p.usage)]
       IN IF ~Falsy(q.usage) THEN Call(q, "onUsage", q.usage) ELSE q
  ELSE p

\* a fallback that does not look at what was collected
ResultFallback_Always(p, parsed) ==
  LET result == Get(parsed, "result")
  IN IF IsString(result) /\ Trim(result.s) # <<>>
     THEN Call([p EXCEPT !.collectedTextParts = Append(@, result.s)], "onText", result)
     ELSE p

\* a result text that replaces what the deltas collected
ResultFallback_Replace(p, parsed) ==
  LET result == Get(parsed, "result")
  IN IF IsString(result) /\ Trim(result.s) # <<>>
     THEN Call([p EXCEPT !.collectedTextParts = <<result.s>>], "onText", result)
     ELSE p

\* a fallback that collects the trimmed result and notifies the untrimmed one
ResultFallback_CollectTrimmed(p, parsed) ==
  LET result == Get(parsed, "result")
  IN IF Len(p.collectedTextParts) = 0 /\ IsString(result) /\ Trim(result.s) # <<>>
     THEN Call([p EXCEPT !.collectedTextParts = Append(@, Trim(result.s))], "onText", result)
     ELSE p

\* a fallback that tests the collected text, not the number of its parts
ResultFallback_EmptyText(p, parsed) ==
  LET result == Get(parsed, "result")
  IN IF Join(p.collectedTextParts) = <<>> /\ IsString(result) /\ Trim(result.s) # <<>>
     THEN Call([p EXCEPT !.collectedTextParts = Append(@, result.s)], "onText", result)
     ELSE p

\* lines 117-124
ResultFallback(p, parsed) ==
  LET result == Get(parsed, "result")
  IN IF Len(p.collectedTextParts) = 0 /\ IsString(result) /\ Trim(result.s) # <<>>
     THEN Call([p EXCEPT !.collectedTextParts = Append(@, result.s)], "onText", result)
     ELSE p

\* lines 125-127
ResultError(p, parsed) ==
  LET result == Get(parsed, "result")
  IN IF Get(parsed, "is_error") = Bool(TRUE) /\ IsString(result)
     THEN Call(p, "onError", result)
     ELSE p

\* a result whose error is reported before its text
ResultCase_ErrorFirst(p, parsed) ==
  ResultFallback(ResultError(ResultUsage(ResultSessionId(p, parsed), parsed), parsed),
                 parsed)

\* the error reported only when the fallback did not fire (else if)
ResultCase_ErrorElse(p, parsed) ==
  LET q == ResultFallback(ResultUsage(ResultSessionId(p, parsed), parsed), parsed)
  IN IF q.collectedTextParts # p.collectedTextParts THEN q ELSE ResultError(q, parsed)

\* lines 105-129
ResultCase(p, parsed) ==
  ResultError(ResultFallback(ResultUsage(ResultSessionId(p, parsed), parsed), parsed),
              parsed)

\* a dispatch whose last case is an else: what is no other event is a result
Dispatch_ElseResult(p, parsed) ==
  LET type == IF IsString(Get(parsed, "type")) THEN Get(parsed, "type") ELSE Str(<<>>)
  IN IF type = T("content_block_delta") /\ isRecord(Get(parsed, "delta"))
     THEN DeltaCase(p, parsed)
     ELSE IF type = T("content_block_start") /\ isRecord(Get(parsed, "content_block"))
     THEN ToolCase(p, parsed)
     ELSE IF type = T("system") /\ Falsy(p.sessionId)
     THEN SystemCase(p, parsed)
     ELSE ResultCase(p, parsed)

\* lines 74-129: the dispatch on the decoded object
Dispatch(p, parsed) ==
  LET type == IF IsString(Get(parsed, "type")) THEN Get(parsed, "type") ELSE Str(<<>>)
  IN IF type = T("content_block_delta") /\ isRecord(Get(parsed, "delta"))
     THEN DeltaCase(p, parsed)
     ELSE IF type = T("content_block_start") /\ isRecord(Get(parsed, "content_block"))
     THEN ToolCase(p, parsed)
     ELSE IF type = T("system") /\ Falsy(p.sessionId)
     THEN SystemCase(p, parsed)
     ELSE IF type = T("result")
     THEN ResultCase(p, parsed)
     ELSE p

\* lines 58-130
processLine(p0, line) ==
  LET p == [p0 EXCEPT !.lines = Append(@, line)]
      trimmed == Trim(line)
      parsed == JSONparse(trimmed)
  IN IF trimmed = <<>> THEN p
     ELSE IF parsed = SyntaxError THEN p
     ELSE IF ~isRecord(parsed) THEN p
     ELSE Dispatch(p, parsed)

\* a decode failure that is not caught ends the feed: the lines after it are lost
RECURSIVE processLines_Abort(_, _)
processLines_Abort(p, ls) ==
  IF ls = <<>> THEN p
  ELSE IF Trim(Head(ls)) # <<>> /\ JSONparse(Trim(Head(ls))) = SyntaxError THEN p
  ELSE processLines_Abort(processLine(p, Head(ls)), Tail(ls))

RECURSIVE processLines(_, _)
processLines(p, ls) ==
  IF ls = <<>> THEN p ELSE processLines(processLine(p, Head(ls)), Tail(ls))

Front(s) == SubSeq(s, 1, Len(s) - 1)
Last(s) == s[Len(s)]

\* a feed that splits the chunk alone and forgets the pending fragment
feed_NoCarry(p, chunk) ==
  LET ls == Split(chunk)
      q == [p EXCEPT !.buffer = Last(ls)]
  IN processLines(q, Front(ls))

\* a feed that never takes the completed lines out of the buffer
feed_NoPop(p, chunk) ==
  LET ls == Split(p.buffer \o chunk)
      q == [p EXCEPT !.buffer = p.buffer \o chunk]
  IN processLines(q, Front(ls))

\* a feed that classifies the unterminated last piece as well
feed_Eager(p, chunk) ==
  LET ls == Split(p.buffer \o chunk)
      q == [p EXCEPT !.buffer = Last(ls)]
  IN processLines(q, ls)

\* lines 133-141
feed(p, chunk) ==
  LET ls == Split(p.buffer \o chunk)
      q == [p EXCEPT !.buffer = Last(ls)]
  IN processLines(q, Front(ls))

\* a flush that leaves the classified line in the buffer
flush_NoClear(p) ==
  IF Trim(p.buffer) # <<>> THEN processLine(p, p.buffer) ELSE p

\* a flush that tests the buffer without trimming it
flush_NoTrim(p) ==
  IF p.buffer # <<>>
  THEN [processLine(p, p.buffer) EXCEPT !.buffer = <<>>]
  ELSE p

\* lines 143-148
flush(p) ==
  IF Trim(p.buffer) # <<>>
  THEN [processLine(p, p.buffer) EXCEPT !.buffer = <<>>]
  ELSE p

\* lines 150-160
getCollectedText(p) == Join(p.collectedTextParts)
getSessionId(p) == p.sessionId
getUsage(p) == p.usage

(***************************************************************************)
(* The lines the caller's process writes.  The members follow the events   *)
(* of the tests (src/unnamed/part_000).                                    *)
(***************************************************************************)
Line(f) == <<LBrace, M(f), RBrace>>

TextDelta(text) ==
  [type |-> T("content_block_delta"),
   delta |-> Obj([type |-> T("text_delta"), text |-> Str(text)])]
JsonDelta ==
  [type |-> T("content_block_delta"),
   delta |-> Obj([type |-> T("input_json_delta"), partial_json |-> T("{")])]
ToolUse(name) ==
  [type |-> T("content_block_start"),
   content_block |-> Obj([type |-> T("tool_use"), name |-> T(name)])]
SystemInit(id) == [type |-> T("system"), subtype |-> T("init"), session_id |-> Str(id)]
SystemNoId == [type |-> T("system"), subtype |-> T("init")]
MessageStop == [type |-> T("message_stop")]
Result(text) == [type |-> T("result"), result |-> Str(text)]
ResultFrom(id) == [type |-> T("result"), session_id |-> Str(id)]
ResultFailed(text) == [type |-> T("result"), result |-> Str(text), is_error |-> Bool(TRUE)]

ResultOk ==
  [type |-> T("result"), session_id |-> T("s2"), result |-> T("x"),
   is_error |-> Bool(FALSE),
   usage |-> Obj([input_tokens |-> Num(50), output_tokens |-> Num(10)])]
ResultZeroUsage ==
  [type |-> T("result"), result |-> T("err"), is_error |-> Bool(TRUE),
   usage |-> Obj([input_tokens |-> Num(0), total |-> Num(-1)])]

\* the events that set text, session id and usage, a CRLF line ending, a
\* truncated object and a blank line
GeneralLines ==
  { Line(TextDelta(<<Ch("a")>>)),
    Line(SystemInit(<<SP, Ch("s1")>>)) \o <<CR>>,
    Line(ResultOk),
    Line(ResultZeroUsage),
    <<LBrace, M(TextDelta(<<Ch("b")>>))>>,
    <<SP>> }

\* session identifiers: from init and from result, padded, blank, not a string
SessionLines ==
  { Line(SystemInit(<<Ch("s1")>>)),
    Line(SystemInit(<<SP, Ch("s3"), SP>>)),
    Line(SystemInit(<<SP>>)),
    Line(ResultFrom(<<Ch("s2")>>)),
    Line(ResultFrom(<<SP>>)),
    Line([type |-> T("result"), session_id |-> Num(7)]) }

\* text: deltas (one empty, one that is no text), results with and without an
\* error flag, one of them white space only
TextLines ==
  { Line(TextDelta(<<Ch("a")>>)),
    Line(TextDelta(<<>>)),
    Line(JsonDelta),
    Line(Result(<<SP, Ch("y")>>)),
    Line(ResultFailed(<<Ch("err")>>)),
    Line(ResultFailed(<<SP>>)) }

\* what JSON.parse rejects, what it decodes to a non-object, and valid lines
DecodeLines ==
  { <<Junk>>,
    <<LBrace, M(TextDelta(<<Ch("b")>>))>>,
    <<LBracket, RBracket>>,
    <<Digit>>,
    <<NullLit>>,
    Line(TextDelta(<<Ch("a")>>)),
    Line(ResultOk) }

ResultUsing(u) == [type |-> T("result"), usage |-> u]

\* usage: the keys of the tests, alternate keys, no positive counter, no key,
\* a usage that is no object, and a usage on a line that is no result
UsageLines ==
  { Line(ResultUsing(Obj([input_tokens |-> Num(50), output_tokens |-> Num(10)]))),
    Line(ResultUsing(Obj([inputTokens |-> Num(7), total |-> Num(5)]))),
    Line(ResultUsing(Obj([input_tokens |-> Num(0), total |-> Num(-1)]))),
    Line(ResultUsing(Obj(NoMembers))),
    Line(ResultUsing(Num(5))),
    Line([type |-> T("message_stop"), usage |-> Obj([total_tokens |-> Num(9)])]) }

\* an event of the given discriminant that carries every field the parser reads
Loaded(type) ==
  [type |-> type, session_id |-> T("s9"), result |-> T("r"), is_error |-> Bool(TRUE),
   usage |-> Obj([total_tokens |-> Num(3)]),
   delta |-> Obj([type |-> T("text_delta"), text |-> T("d")]),
   content_block |-> Obj([type |-> T("tool_use"), name |-> T("Bash")])]
Untyped == [k \in DOMAIN Loaded(Null) \ {"type"} |-> Loaded(Null)[k]]

\* events: an unknown discriminant, one that is no string, none at all, and
\* the events that reach each of the five observers
EventLines ==
  { Line(Loaded(T("message_stop"))),
    Line(Loaded(Num(1))),
    Line(Untyped),
    Line(ToolUse("Read")),
    Line(TextDelta(<<Ch("a")>>)),
    Line(Loaded(T("result"))) }

\* the session of the end to end test, as the lines the test feeds
Chars(s) == [i \in 1..Len(s) |-> Ch(s[i])]
Hello == Chars(<<"H", "e", "l", "l", "o">>)
CommaSpace == Chars(<<",", " ">>)
World == Chars(<<"w", "o", "r", "l", "d", "!">>)

SessionTrace ==
  << Line(SystemInit(<<Ch("abc-123")>>)),
     Line([type |-> T("content_block_start"), index |-> Num(0),
           content_block |-> Obj([type |-> T("text"), text |-> Str(<<>>)])]),
     Line([index |-> Num(0)] @@ TextDelta(Hello)),
     Line([index |-> Num(0)] @@ TextDelta(CommaSpace)),
     Line([index |-> Num(0)] @@ TextDelta(World)),
     Line([type |-> T("content_block_stop"), index |-> Num(0)]),
     Line(MessageStop),
     Line([type |-> T("result"), subtype |-> T("success"), session_id |-> T("abc-123"),
           result |-> Str(Hello \o CommaSpace \o World), is_error |-> Bool(FALSE),
           usage |-> Obj([input_tokens |-> Num(50), output_tokens |-> Num(10)])]) >>

ResultFlagged(flag, result) == [type |-> T("result"), is_error |-> flag, result |-> result]

\* error flags: the booleans, numbers and a string as the flag, and a result
\* that is no string
ErrorLines ==
  { Line(ResultFlagged(Bool(TRUE), T("boom"))),
    Line(ResultFlagged(Bool(FALSE), T("fine"))),
    Line(ResultFlagged(Num(1), T("boom"))),
    Line(ResultFlagged(T("yes"), T("boom"))),
    Line(ResultFlagged(Num(0), T("fine"))),
    Line(ResultFlagged(Bool(TRUE), Num(5))) }

\* the keys toUsage reads, grouped by the counter they are alternates of
KeyGroups ==
  { {"input_tokens", "inputTokens"},
    {"output_tokens", "outputTokens"},
    {"cache_read_input_tokens", "cached_input_tokens", "cacheRead"},
    {"cache_write_input_tokens", "cacheWrite"},
    {"total_tokens", "total"} }
UsageKeys == UNION KeyGroups

\* the values a key is given: zero, a positive number and a string; within
\* one counter also a negative and a second positive number
RawValues == {Num(0), Num(4), T("4")}
GroupValues == RawValues \cup {Num(-1), Num(9)}

\* usage objects of at most MaxKeys keys of any counters, and those that give
\* every alternate of one counter a value
RawUsages ==
  UNION {[S -> RawValues] : S \in {X \in SUBSET UsageKeys : Cardinality(X) <= MaxKeys}}
    \cup UNION {[G -> GroupValues] : G \in KeyGroups}

(***************************************************************************)
(* The streams: up to MaxLines lines, each ended by a newline except,      *)
(* possibly, the last.                                                     *)
(***************************************************************************)
RECURSIVE Terminated(_)
Terminated(ls) ==
  IF ls = <<>> THEN <<>> ELSE Head(ls) \o <<NL>> \o Terminated(Tail(ls))

StreamsOf(L) ==
  LET seqs == UNION {[1..k -> L] : k \in 1..MaxLines}
  IN {Terminated(ls) : ls \in seqs}
       \cup {Terminated(SubSeq(ls, 1, Len(ls) - 1)) \o ls[Len(ls)] : ls \in seqs}

Parser ==
  [buffer |-> buffer, collectedTextParts |-> collectedTextParts,
   sessionId |-> sessionId, usage |-> usage, calls |-> calls, lines |-> lines]

Becomes(p) ==
  /\ buffer' = p.buffer
  /\ collectedTextParts' = p.collectedTextParts
  /\ sessionId' = p.sessionId
  /\ usage' = p.usage
  /\ calls' = p.calls
  /\ lines' = p.lines

InitOn(S) ==
  /\ stream \in S
  /\ pos = 0
  /\ buffer = NewParser.buffer
  /\ collectedTextParts = NewParser.collectedTextParts
  /\ sessionId = NewParser.sessionId
  /\ usage = NewParser.usage
  /\ calls = NewParser.calls
  /\ lines = NewParser.lines
  /\ lastOp = "new"
  /\ again = FALSE
  /\ splitLine = FALSE
  /\ nflush = 0

InitOf(L) == InitOn(StreamsOf(L))

Init == InitOf(GeneralLines)
InitSession == InitOf(SessionLines)
InitText == InitOf(TextLines)
InitDecode == InitOf(DecodeLines)
InitUsage == InitOf(UsageLines)
InitEvents == InitOf(EventLines)
InitCounters == InitOn({Line(ResultUsing(Obj(u))) \o <<NL>> : u \in RawUsages})
InitError == InitOf(ErrorLines)
InitTrace ==
  InitOn({Terminated(SessionTrace), Terminated(Front(SessionTrace)) \o Last(SessionTrace)})

\* parser.feed(chunk): the caller delivers the next k characters of the stream
Feed ==
  \E k \in 0..(Len(stream) - pos) :
    /\ Becomes(feed(Parser, SubSeq(stream, pos + 1, pos + k)))
    /\ pos' = pos + k
    /\ lastOp' = "feed"
    /\ again' = FALSE
    /\ splitLine' = (splitLine \/ (buffer' # <<>> /\ pos' < Len(stream)))
    /\ UNCHANGED <<stream, nflush>>

\* parser.flush()
Flush ==
  /\ nflush < MaxFlush
  /\ Becomes(flush(Parser))
  /\ nflush' = nflush + 1
  /\ lastOp' = "flush"
  /\ again' = (lastOp = "flush")
  /\ UNCHANGED <<stream, pos, splitLine>>

Next == Feed \/ Flush

Spec == Init /\ [][Next]_vars
SpecSession == InitSession /\ [][Next]_vars
SpecText == InitText /\ [][Next]_vars
SpecDecode == InitDecode /\ [][Next]_vars
SpecUsage == InitUsage /\ [][Next]_vars
SpecEvents == InitEvents /\ [][Next]_vars
SpecCounters == InitCounters /\ [][Next]_vars
SpecError == InitError /\ [][Next]_vars
SpecTrace == InitTrace /\ [][Next]_vars

(***************************************************************************)
(* What a line is, read off its characters (not through the parser).       *)
(***************************************************************************)
NoSpace(s) == SelectSeq(s, LAMBDA c : c \notin WhiteSpace)

\* the line spells a JSON object
IsObjectText(l) ==
  LET s == NoSpace(l)
  IN /\ Len(s) \in {2, 3}
     /\ s[1] = LBrace
     /\ s[Len(s)] = RBrace
     /\ Len(s) = 3 => DOMAIN s[2] = {"members"}

\* the object a line spells
EventOf(l) == IF Len(NoSpace(l)) = 3 THEN Obj(NoSpace(l)[2].members) ELSE Obj(NoMembers)

\* the line does not decode, or decodes to something that is no object
Malformed(l) == Trim(l) # <<>> /\ ~IsObjectText(l)

TypeIs(l, type) == IsObjectText(l) /\ Get(EventOf(l), "type") = T(type)
IsResultLine(l) == TypeIs(l, "result")
ResultOf(l) == Get(EventOf(l), "result")

IsTextDeltaLine(l) ==
  /\ TypeIs(l, "content_block_delta")
  /\ Get(EventOf(l), "delta").t = "object"
  /\ Get(Get(EventOf(l), "delta"), "type") = T("text_delta")
  /\ Get(Get(EventOf(l), "delta"), "text").t = "string"

\* a result line whose usage object has every counter absent, zero or negative
HasEmptyUsage(l) ==
  /\ IsResultLine(l)
  /\ Get(EventOf(l), "usage").t = "object"
  /\ \A k \in UsageKeys :
       LET v == Get(Get(EventOf(l), "usage"), k)
       IN v.t = "undefined" \/ (v.t = "number" /\ v.n <= 0)

\* the line carries a session identifier that init or result would take
CarriesId(l) ==
  /\ TypeIs(l, "system") \/ TypeIs(l, "result")
  /\ Get(EventOf(l), "session_id").t = "string"
  /\ Trim(Get(EventOf(l), "session_id").s) # <<>>

CallsTo(cb) == {i \in 1..Len(calls) : calls[i].cb = cb}
NewCalls == SubSeq(calls', Len(calls) + 1, Len(calls'))
NewCallsTo(cb) == {i \in 1..Len(NewCalls) : NewCalls[i].cb = cb}
Observed(cs) == [i \in 1..Len(cs) |-> [cb |-> cs[i].cb, arg |-> cs[i].arg]]
IsPrefix(a, b) == Len(a) <= Len(b) /\ SubSeq(b, 1, Len(a)) = a

\* the step is one feed() or flush() call that classifies exactly one line
OneLineStep == Len(lines') = Len(lines) + 1
FlushStep == lastOp' = "flush" /\ nflush' = nflush + 1

(***************************************************************************)
(* C1: split-invariance.  Once the fragments of the stream have been fed   *)
(* in order and flush() called once, the collected text, the session id    *)
(* and the usage are those of feeding the stream whole and flushing.       *)
(***************************************************************************)
WholeStream == flush(feed(NewParser, stream))

C1_SplitInvariance ==
  (pos = Len(stream) /\ lastOp = "flush" /\ nflush = 1) =>
    /\ getCollectedText(Parser) = getCollectedText(WholeStream)
    /\ getSessionId(Parser) = getSessionId(WholeStream)
    /\ getUsage(Parser) = getUsage(WholeStream)

C1_Witness ==
  /\ pos = Len(stream) /\ lastOp = "flush" /\ nflush = 1
  /\ splitLine
  /\ Len(collectedTextParts) = 2
  /\ sessionId # Undefined
  /\ usage # Undefined

(***************************************************************************)
(* C2: a result line whose usage object has all counters absent, zero or   *)
(* negative does not call the usage observer and leaves the stored usage   *)
(* as it was, also when a usage record is already stored.                  *)
(***************************************************************************)
C2_EmptyUsageIsSilent ==
  [][(OneLineStep /\ HasEmptyUsage(Last(lines')))
       => (usage' = usage /\ NewCallsTo("onUsage") = {})]_vars

(***************************************************************************)
(* C3: the session id is write-once.  The session-id observer is called at *)
(* most once; the id is that of the first init or result line that carries *)
(* a non-blank one, and no later line changes it or calls the observer.    *)
(***************************************************************************)
IdLines == {i \in 1..Len(lines) : CarriesId(lines[i])}
FirstIdLine == CHOOSE i \in IdLines : \A j \in IdLines : i <= j

C3_SessionIdWriteOnce ==
  /\ Cardinality(CallsTo("onSessionId")) <= 1
  /\ IdLines = {} => sessionId = Undefined /\ CallsTo("onSessionId") = {}
  /\ IdLines # {} =>
       /\ sessionId = Str(Trim(Get(EventOf(lines[FirstIdLine]), "session_id").s))
       /\ CallsTo("onSessionId") # {}
       /\ \A i \in CallsTo("onSessionId") :
            calls[i].line = FirstIdLine /\ calls[i].arg = sessionId

C3_Witness ==
  \E i, j \in IdLines :
    /\ i < j
    /\ TypeIs(lines[i], "system")
    /\ TypeIs(lines[j], "result")
    /\ Get(EventOf(lines[j]), "session_id") # Get(EventOf(lines[i]), "session_id")
    /\ sessionId = Get(EventOf(lines[i]), "session_id")

(***************************************************************************)
(* C4: the number of text observer calls is the number of text-delta       *)
(* lines, plus one fallback if and only if no delta occurred and a result  *)
(* line carries a non-empty result.                                        *)
(***************************************************************************)
DeltaLines == {i \in 1..Len(lines) : IsTextDeltaLine(lines[i])}

C4_TextCallCount_Original ==
  Cardinality(CallsTo("onText")) =
    Cardinality(DeltaLines)
      + (IF /\ DeltaLines = {}
            /\ \E i \in 1..Len(lines) :
                 /\ IsResultLine(lines[i])
                 /\ ResultOf(lines[i]).t = "string"
                 /\ ResultOf(lines[i]).s # <<>>
         THEN 1 ELSE 0)

\* C4 as amended: the fallback is counted if and only if some result line
\* whose result is a string that is non-empty after trimming comes before
\* every text-delta line.
C4_TextCallCount ==
  Cardinality(CallsTo("onText")) =
    Cardinality(DeltaLines)
      + (IF \E i \in 1..Len(lines) :
              /\ IsResultLine(lines[i])
              /\ ResultOf(lines[i]).t = "string"
              /\ Trim(ResultOf(lines[i]).s) # <<>>
              /\ \A j \in DeltaLines : i < j
         THEN 1 ELSE 0)

C4_Witness ==
  /\ Cardinality(CallsTo("onText")) = 2
  /\ Cardinality(DeltaLines) = 1
  /\ IsResultLine(lines[1])

(***************************************************************************)
(* C5: a line that does not decode, or decodes to a non-object, calls no   *)
(* observer and changes nothing; the lines after it are classified as if   *)
(* it were absent, and none of them is skipped.                            *)
(***************************************************************************)
WithoutMalformed == processLines(NewParser, SelectSeq(lines, LAMBDA l : ~Malformed(l)))

C5_MalformedLinesDiscarded ==
  /\ collectedTextParts = WithoutMalformed.collectedTextParts
  /\ sessionId = WithoutMalformed.sessionId
  /\ usage = WithoutMalformed.usage
  /\ Observed(calls) = Observed(WithoutMalformed.calls)
  /\ \A i \in 1..Len(calls) : ~Malformed(lines[calls[i].line])
  /\ nflush = 0 => lines = Front(Split(SubSeq(stream, 1, pos)))

C5_Witness ==
  /\ nflush = 0
  /\ Len(lines) = 2
  /\ Malformed(lines[1])
  /\ \E i \in 1..Len(calls) : calls[i].line = 2

(***************************************************************************)
(* C6: a result line with the error flag true and a string result calls    *)
(* the error observer with that string; if no text had been collected and  *)
(* the result is non-empty, the same line also appends the result and      *)
(* calls the text observer.                                                *)
(***************************************************************************)
IsFailedResult(l) ==
  /\ IsResultLine(l)
  /\ Get(EventOf(l), "is_error") = Bool(TRUE)
  /\ ResultOf(l).t = "string"

ErrorReported ==
  \E i \in 1..Len(NewCalls) :
    NewCalls[i].cb = "onError" /\ NewCalls[i].arg = ResultOf(Last(lines'))

FallbackDelivered ==
  /\ collectedTextParts' = <<ResultOf(Last(lines')).s>>
  /\ \E i \in 1..Len(NewCalls) :
       NewCalls[i].cb = "onText" /\ NewCalls[i].arg = ResultOf(Last(lines'))

C6_ErrorAndFallback_Original ==
  [][(OneLineStep /\ IsFailedResult(Last(lines'))) =>
       /\ ErrorReported
       /\ (getCollectedText(Parser) = <<>> /\ ResultOf(Last(lines')).s # <<>>)
            => FallbackDelivered]_vars

\* C6 as amended: the fallback also fires if no text part had been collected
\* (no delta event, not even an empty one, and no earlier fallback) and the
\* result is non-empty after trimming.
C6_ErrorAndFallback ==
  [][(OneLineStep /\ IsFailedResult(Last(lines'))) =>
       /\ ErrorReported
       /\ (collectedTextParts = <<>> /\ Trim(ResultOf(Last(lines')).s) # <<>>)
            => FallbackDelivered]_vars

C6_Witness ==
  \E i, j \in 1..Len(calls) :
    /\ calls[i].cb = "onText"
    /\ calls[j].cb = "onError"
    /\ calls[i].line = calls[j].line
    /\ calls[i].arg = calls[j].arg

(***************************************************************************)
(* C7: flush() with nothing pending, or right after a flush(), calls no    *)
(* observer and changes no accumulated state.                              *)
(***************************************************************************)
C7_FlushIdempotent ==
  [][(FlushStep /\ (buffer = <<>> \/ lastOp = "flush")) =>
       UNCHANGED <<buffer, collectedTextParts, sessionId, usage, calls, lines>>]_vars

C7_Witness ==
  /\ lastOp = "flush" /\ again /\ nflush = 2
  /\ pos = Len(stream)
  /\ Trim(Last(Split(stream))) # <<>>
  /\ Len(lines) = Len(Split(stream))
  /\ calls # <<>>
  /\ calls[Len(calls)].line = Len(lines)

(***************************************************************************)
(* C8: after feed() or flush() returns, the pending fragment holds no      *)
(* newline.                                                                *)
(***************************************************************************)
C8_NoNewlinePending ==
  lastOp \in {"feed", "flush"} => \A i \in 1..Len(buffer) : buffer[i] # NL

C8_Witness ==
  /\ lastOp = "feed"
  /\ buffer # <<>>
  /\ Len(lines) = 2

(***************************************************************************)
(* C9: after every flush() the pending fragment is empty.                  *)
(***************************************************************************)
C9_EmptyAfterFlush_Original == lastOp = "flush" => buffer = <<>>

\* C9 as amended: after every flush() the pending fragment holds nothing but
\* white space: non-white-space content is classified as one final line and
\* the fragment cleared; an empty or white-space-only fragment is left as it
\* is and nothing is classified.
C9_FlushLeavesNoContent ==
  [][FlushStep =>
       /\ Trim(buffer') = <<>>
       /\ IF Trim(buffer) # <<>>
          THEN lines' = Append(lines, buffer) /\ buffer' = <<>>
          ELSE UNCHANGED <<buffer, collectedTextParts, sessionId, usage, calls,
                           lines>>]_vars

C9_Witness ==
  /\ lastOp = "flush"
  /\ buffer # <<>>
  /\ Trim(buffer) = <<>>
  /\ lines # <<>>

(***************************************************************************)
(* C10: collectedText is append-only: across every feed() or flush() the   *)
(* parts collected before are a prefix of the parts collected after, and   *)
(* so is the joined text.                                                  *)
(***************************************************************************)
C10_TextAppendOnly ==
  [][/\ IsPrefix(collectedTextParts, collectedTextParts')
     /\ IsPrefix(Join(collectedTextParts), Join(collectedTextParts'))]_vars

C10_Witness ==
  /\ Len(collectedTextParts) = 2
  /\ collectedTextParts[1] # <<>>
  /\ collectedTextParts[2] # <<>>
  /\ lastOp = "flush"

(***************************************************************************)
(* C11: usage is last-write-wins and never cleared.  getUsage() is the     *)
(* conversion of the most recent result line whose usage object has a      *)
(* counter that is a number above zero, absent if there was none; once     *)
(* present it does not become absent.                                      *)
(***************************************************************************)
HasMeaningfulUsage(l) ==
  /\ IsResultLine(l)
  /\ Get(EventOf(l), "usage").t = "object"
  /\ \E k \in UsageKeys :
       LET v == Get(Get(EventOf(l), "usage"), k)
       IN v.t = "number" /\ v.n > 0

UsageLinesSeen == {i \in 1..Len(lines) : HasMeaningfulUsage(lines[i])}
LastUsageLine == CHOOSE i \in UsageLinesSeen : \A j \in UsageLinesSeen : j <= i

C11_UsageLastWriteWins ==
  /\ [](getUsage(Parser) =
          IF UsageLinesSeen = {} THEN Undefined
          ELSE toUsage(Get(EventOf(lines[LastUsageLine]), "usage")))
  /\ [][getUsage(Parser) # Undefined => getUsage(Parser)' # Undefined]_vars

C11_Witness ==
  /\ Len(lines) = 2
  /\ HasMeaningfulUsage(lines[1])
  /\ HasMeaningfulUsage(lines[2])
  /\ lines[1] # lines[2]
  /\ usage # Undefined
  /\ Len(calls) = 2

(***************************************************************************)
(* C12: an unterminated trailing line is held back and delivered exactly   *)
(* once.  A feed() whose combined buffer has no newline calls no observer, *)
(* classifies nothing and only extends the pending fragment; every         *)
(* character delivered is in exactly one classified line or still pending, *)
(* so a line is classified when its newline arrives or at flush(), and not *)
(* again.                                                                  *)
(***************************************************************************)
Fed == SubSeq(stream, 1, pos)
FeedStep == lastOp' = "feed"
Chunk == SubSeq(stream, pos + 1, pos')

C12_HeldBackThenOnce ==
  /\ [](Join(lines) \o buffer = SelectSeq(Fed, LAMBDA c : c # NL))
  /\ [][(FeedStep /\ \A i \in 1..Len(buffer \o Chunk) : (buffer \o Chunk)[i] # NL) =>
          /\ buffer' = buffer \o Chunk
          /\ UNCHANGED <<collectedTextParts, sessionId, usage, calls, lines>>]_vars
  /\ [][lines' # lines =>
          \/ FeedStep /\ \E i \in 1..Len(Chunk) : Chunk[i] = NL
          \/ FlushStep /\ lines' = Append(lines, buffer)]_vars

C12_Witness ==
  /\ splitLine
  /\ lastOp = "flush" /\ nflush = 1
  /\ pos = Len(stream)
  /\ Trim(Last(Split(stream))) # <<>>
  /\ lines = Split(stream)
  /\ Len(lines) = 2
  /\ \E i \in 1..Len(calls) : calls[i].line = 2

(***************************************************************************)
(* C13: a decoded object whose discriminant is absent, not a string, or    *)
(* none of the four recognized event types calls no observer and leaves    *)
(* the collected text, the session id and the usage unchanged, whatever    *)
(* the parser state.                                                       *)
(***************************************************************************)
RecognizedTypes ==
  {T("content_block_delta"), T("content_block_start"), T("system"), T("result")}

Unrecognized(l) == IsObjectText(l) /\ Get(EventOf(l), "type") \notin RecognizedTypes

C13_UnknownEventsDiscarded ==
  [][(OneLineStep /\ Unrecognized(Last(lines'))) =>
       UNCHANGED <<collectedTextParts, sessionId, usage, calls>>]_vars

C13_Witness ==
  /\ Len(lines) = 2
  /\ Unrecognized(lines[2])
  /\ Get(EventOf(lines[2]), "type").t # "string"
  /\ collectedTextParts # <<>>
  /\ sessionId # Undefined
  /\ usage # Undefined

(***************************************************************************)
(* C14: the end to end session.  Once the init event with id "abc-123",    *)
(* the deltas "Hello", ", ", "world!" and the result event (id "abc-123",  *)
(* result "Hello, world!", no error, usage input 50 and output 10) have    *)
(* been processed, the text is "Hello, world!", the session id "abc-123",  *)
(* the usage {input: 50, output: 10}, and the text observer was called 3   *)
(* times, the session id and usage observers once, the error observer      *)
(* never.                                                                  *)
(***************************************************************************)
C14_EndToEnd ==
  (pos = Len(stream) /\ lines = SessionTrace) =>
    /\ getCollectedText(Parser) = Hello \o CommaSpace \o World
    /\ getSessionId(Parser) = T("abc-123")
    /\ isRecord(getUsage(Parser))
    /\ \A k \in DOMAIN getUsage(Parser).f :
         Get(getUsage(Parser), k) =
           IF k = "input" THEN Num(50) ELSE IF k = "output" THEN Num(10) ELSE Undefined
    /\ Cardinality(CallsTo("onText")) = 3
    /\ Cardinality(CallsTo("onSessionId")) = 1
    /\ Cardinality(CallsTo("onUsage")) = 1
    /\ Cardinality(CallsTo("onError")) = 0

C14_Witness ==
  /\ pos = Len(stream)
  /\ lines = SessionTrace
  /\ nflush = 0
  /\ Len(calls) = 5

(***************************************************************************)
(* C15: the terminal fallback.  Processing a result line appends its       *)
(* result field to the collected text and passes it to the text observer   *)
(* exactly when no fragment has been collected so far and the result is a  *)
(* string that is non-empty after trimming; hence at most one text call of *)
(* a parser comes from a result line.                                      *)
(***************************************************************************)
FallbackCalls == {i \in CallsTo("onText") : IsResultLine(lines[calls[i].line])}

FallbackDue(parts, l) ==
  /\ parts = <<>>
  /\ ResultOf(l).t = "string"
  /\ Trim(ResultOf(l).s) # <<>>

C15_FallbackCondition ==
  /\ [](Cardinality(FallbackCalls) <= 1)
  /\ [][(OneLineStep /\ IsResultLine(Last(lines'))) =>
          IF FallbackDue(collectedTextParts, Last(lines'))
          THEN /\ collectedTextParts' = <<ResultOf(Last(lines')).s>>
               /\ Cardinality(NewCallsTo("onText")) = 1
               /\ \A i \in NewCallsTo("onText") : NewCalls[i].arg = ResultOf(Last(lines'))
          ELSE /\ collectedTextParts' = collectedTextParts
               /\ NewCallsTo("onText") = {}]_vars

C15_Witness ==
  /\ Len(lines) = 2
  /\ IsResultLine(lines[1]) /\ IsResultLine(lines[2])
  /\ FallbackDue(<<>>, lines[1]) /\ FallbackDue(<<>>, lines[2])
  /\ collectedTextParts = <<ResultOf(lines[1]).s>>
  /\ Cardinality(FallbackCalls) = 1

(***************************************************************************)
(* C16: every result line that carries a truthy error flag (any truthy     *)
(* value, not only the boolean true) and a string result field notifies    *)
(* the error observer with that string.                                    *)
(***************************************************************************)
ErrorFlag(l) == Get(EventOf(l), "is_error")

C16_TruthyFlagNotifies ==
  [][(/\ OneLineStep
      /\ IsResultLine(Last(lines'))
      /\ ~Falsy(ErrorFlag(Last(lines')))
      /\ ResultOf(Last(lines')).t = "string") =>
       \E i \in NewCallsTo("onError") : NewCalls[i].arg = ResultOf(Last(lines'))]_vars

(***************************************************************************)
(* C17: the usage conversion resolves each of the five counters on its     *)
(* own: the first of the counter's alternate keys, in priority order, that *)
(* is present with a number greater than zero (a zero, negative or         *)
(* non-numeric key of higher priority does not block a later one).  It     *)
(* returns no record exactly when all five counters are absent, otherwise  *)
(* a record of exactly the resolved counters.                              *)
(***************************************************************************)
Alternates ==
  [input |-> <<"input_tokens", "inputTokens">>,
   output |-> <<"output_tokens", "outputTokens">>,
   cacheRead |-> <<"cache_read_input_tokens", "cached_input_tokens", "cacheRead">>,
   cacheWrite |-> <<"cache_write_input_tokens", "cacheWrite">>,
   total |-> <<"total_tokens", "total">>]

Positive(raw, key) == key \in DOMAIN raw.f /\ raw.f[key].t = "number" /\ raw.f[key].n > 0

Resolved(raw, counter) ==
  LET keys == Alternates[counter]
      good == {i \in 1..Len(keys) : Positive(raw, keys[i])}
  IN IF good = {} THEN Undefined
     ELSE raw.f[keys[CHOOSE i \in good : \A j \in good : i <= j]]

RawUsage == Get(EventOf(lines[1]), "usage")

C17_CountersResolved ==
  lines # <<>> /\ IsResultLine(lines[1]) =>
    IF \A c \in DOMAIN Alternates : Resolved(RawUsage, c) = Undefined
    THEN getUsage(Parser) = Undefined /\ calls = <<>>
    ELSE /\ isRecord(getUsage(Parser))
         /\ DOMAIN getUsage(Parser).f = DOMAIN Alternates
         /\ \A c \in DOMAIN Alternates : Get(getUsage(Parser), c) = Resolved(RawUsage, c)
         /\ Observed(calls) = <<[cb |-> "onUsage", arg |-> getUsage(Parser)]>>

C17_Witness ==
  /\ lines # <<>> /\ IsResultLine(lines[1])
  /\ Get(RawUsage, "cache_read_input_tokens") = Num(-1)
  /\ Get(RawUsage, "cached_input_tokens") = Num(4)
  /\ Get(RawUsage, "cacheRead") = Num(9)
  /\ Get(getUsage(Parser), "cacheRead") = Num(4)
  /\ Get(getUsage(Parser), "input") = Undefined

(***************************************************************************)
(* C18: while one input line is processed each of the five observers is    *)
(* called at most once, and every call is made inside the feed() or        *)
(* flush() call that completed the line: an operation adds only calls that *)
(* belong to the lines it completed itself, and none is made later.        *)
(***************************************************************************)
Observers == {"onText", "onToolUse", "onSessionId", "onUsage", "onError"}

CallsOf(k) == {i \in 1..Len(calls) : calls[i].line = k}

C18_OncePerLineSynchronous ==
  /\ [](\A k \in 1..Len(lines) : \A cb \in Observers :
          Cardinality(CallsOf(k) \cap CallsTo(cb)) <= 1)
  /\ [](\A i \in 1..Len(calls) : calls[i].cb \in Observers /\ calls[i].line \in 1..Len(lines))
  /\ [][/\ IsPrefix(calls, calls')
        /\ IsPrefix(lines, lines')
        /\ \A i \in 1..Len(NewCalls) : NewCalls[i].line \in (Len(lines) + 1)..Len(lines')]_vars

C18_Witness ==
  /\ Len(lines) = 2
  /\ CallsOf(1) # {} /\ CallsOf(1) \subseteq CallsTo("onToolUse")
  /\ Cardinality(CallsOf(2)) = 4
  /\ \A cb \in Observers \ {"onToolUse"} : CallsOf(2) \cap CallsTo(cb) # {}

(***************************************************************************)
(* C19: in every reachable state getCollectedText() is the concatenation,  *)
(* in call order, of the payloads passed so far to the text observer,      *)
(* delta payloads and the untrimmed fallback result alike: the collected   *)
(* fragments are exactly the notified payloads.                            *)
(***************************************************************************)
TextPayloads ==
  LET cs == SelectSeq(calls, LAMBDA c : c.cb = "onText")
  IN [i \in 1..Len(cs) |-> cs[i].arg.s]

C19_TextIsNotifiedText ==
  /\ getCollectedText(Parser) = Join(TextPayloads)
  /\ collectedTextParts = TextPayloads

C19_Witness ==
  /\ Len(TextPayloads) = 2
  /\ FallbackCalls # {}
  /\ TextPayloads[1] # Trim(TextPayloads[1])
  /\ getCollectedText(Parser) = TextPayloads[1] \o TextPayloads[2]

(***************************************************************************)
(* C20: the sequence of observer notifications (observer and payload, in   *)
(* order) is determined by the stream alone.  However the stream is split  *)
(* into fragments, after one final flush() the notifications are those of  *)
(* feeding the stream whole and flushing; they come in line order, and     *)
(* those of one result line in the order session id, usage, text, error.   *)
(***************************************************************************)
Rank(cb) ==
  IF cb = "onSessionId" THEN 1
  ELSE IF cb = "onUsage" THEN 2
  ELSE IF cb = "onText" THEN 3
  ELSE IF cb = "onError" THEN 4
  ELSE 0

C20_NotificationsDetermined ==
  (pos = Len(stream) /\ lastOp = "flush" /\ nflush = 1) =>
    /\ Observed(calls) = Observed(WholeStream.calls)
    /\ \A i, j \in 1..Len(calls) :
         i < j =>
           /\ calls[i].line <= calls[j].line
           /\ (calls[i].line = calls[j].line /\ IsResultLine(lines[calls[i].line])) =>
                Rank(calls[i].cb) < Rank(calls[j].cb)

C20_Witness ==
  /\ pos = Len(stream) /\ lastOp = "flush" /\ nflush = 1
  /\ splitLine
  /\ Len(lines) = 2
  /\ Cardinality(CallsOf(1)) = 4
  /\ IsResultLine(lines[1])
  /\ CallsOf(2) # {}
====
